---- MODULE Spec2Model ----
(***************************************************************************)
(* QLauncher dashboard backend (main.py): the configuration store, the     *)
(* file-backed weather cache, the weather fetcher, the YouTube snapshot    *)
(* reader and the HTTP handlers, as a state machine.                       *)
(*                                                                         *)
(* Strings of the configuration are TLA+ strings; where the code looks at  *)
(* the characters of a string (int(), json.dump, json.load) the string is  *)
(* a sequence of one-character strings.  The non-ASCII character U+00E9    *)
(* is written "U+00E9".                                                    *)
(***************************************************************************)
EXTENDS Integers, Sequences, FiniteSets, TLC

VARIABLES
    ini,                \* content of config.ini on disk (INI_FILE)
    config,             \* the global dict `config`
    JSON_FILE_YOUTUBE,  \* global, set by load_ini
    JSON_FILE_WEATHER,  \* global, set by load_ini
    files,              \* weather cache files on disk: path -> NoFile or [content, mtime]
    yt,                 \* YouTube snapshot files on disk: path -> NoFile or snapshot
    now,                \* wall clock, in minutes
    up,                 \* the server process is running
    pc,                 \* per worker thread: position inside its handler
    loc,                \* per worker thread: the handler's local variables
    last,               \* the last step taken and, for a request, its response
    lastGood            \* per cache file: payload of the most recent successful fetch written to it

vars == <<ini, config, JSON_FILE_YOUTUBE, JSON_FILE_WEATHER, files, yt, now, up,
          pc, loc, last, lastGood>>

----------------------------------------------------------------------------
(* Bounds of the model *)

\* the clock stops at MaxTime minutes
MaxTime == 9
\* minutes that pass in one Tick
TickStep == 3

(* Program constants *)

\* file_create: default DataRenewalInterval, in minutes
DefaultInterval == 6

NoFile == [exists |-> FALSE]
Empty == <<>>          \* the empty dict {}

----------------------------------------------------------------------------
(* config.ini                                                              *)

DefaultYoutube == "youtube_data.json"
DefaultWeather == "weather_data.json"
AltYoutube == "yt_alt.json"
AltWeather == "w_alt.json"

WeatherPaths == {DefaultWeather, AltWeather}
YoutubePaths == {DefaultYoutube, AltYoutube}

\* The file on disk: kind "file" with the sections it holds, kind "absent"
\* (no file at all) or kind "malformed" (a file on which parser.read raises,
\* e.g. a line before the first section header).  `bad` names the sections
\* holding a value with a lone '%', on which dict(parser[...]) raises
\* InterpolationSyntaxError.
IniFile(sections, bad) == [kind |-> "file", sections |-> sections, bad |-> bad]

IniFull ==
    IniFile([AppSettings |-> [WeatherAPIKey |-> "key", DataRenewalInterval |-> "3",
                              Latitude |-> "52", Longitude |-> "21"],
             Apps        |-> [calc |-> "calc.exe", Notes |-> "notepad.exe"],
             Links       |-> [docs |-> "https://d"],
             Socials     |-> [a |-> "b"]], {})

\* unparsable interval, both data files moved, no Apps and no Links section
IniMoved ==
    IniFile([AppSettings |-> [WeatherAPIKey |-> "key", DataRenewalInterval |-> "soon",
                              WeatherJSON |-> AltWeather, YoutubeJSON |-> AltYoutube],
             Socials     |-> [a |-> "c"]], {})

\* negative interval
IniNegative ==
    IniFile([AppSettings |-> [WeatherAPIKey |-> "key", DataRenewalInterval |-> "-1"],
             Apps        |-> [calc |-> "calc.exe"]], {})

\* no AppSettings section at all: no API key, default interval
IniNoSettings ==
    IniFile([Apps    |-> [Notes |-> "notes.exe"],
             Links   |-> [docs |-> "https://e"],
             Socials |-> [a |-> "b"]], {})

\* an empty API key, and a Links value with a lone '%' (an URL-encoded link)
IniBadLinks ==
    IniFile([AppSettings |-> [WeatherAPIKey |-> "", DataRenewalInterval |-> "3",
                              WeatherJSON |-> AltWeather],
             Apps        |-> [calc |-> "calc2.exe"],
             Links       |-> [docs |-> "https://d/a%20b"],
             Socials     |-> [a |-> "d"]], {"Links"})

Absent == [kind |-> "absent", sections |-> Empty, bad |-> {}]
Malformed == [kind |-> "malformed", sections |-> Empty, bad |-> {}]

IniFiles == {IniFull, IniMoved, IniNegative, IniNoSettings, IniBadLinks}
IniStates == IniFiles \cup {Absent, Malformed}

----------------------------------------------------------------------------
(* load_ini                                                                *)

\* parser.read(INI_FILE): a missing file is skipped silently and leaves the
\* parser without sections.  The result is the parser: the sections read.
ParserRead(f) == [sections |-> f.sections, bad |-> f.bad]

\* dict(parser[name]) if name in parser else {}
SectionDict(parser, name) ==
    IF name \in DOMAIN parser.sections THEN parser.sections[name] ELSE Empty

\* d.get(key, default)
Get(d, key, default) == IF key \in DOMAIN d THEN d[key] ELSE default

\* load_ini with the two paths computed before the sections are assigned
LoadStepsPathsFirst == <<"YoutubeJSON", "WeatherJSON", "Settings", "Apps", "Links", "Socials">>

\* The assignments of load_ini, in program order.  Each reads the parser
\* (or, for the two paths, config['Settings']) and writes one global.
LoadSteps == <<"Settings", "Apps", "Links", "Socials", "YoutubeJSON", "WeatherJSON">>

IniSectionOf(step) == IF step = "Settings" THEN "AppSettings" ELSE step

\* whether assignment `step` raises on the parser's content
StepRaises(parser, step) == IniSectionOf(step) \in parser.bad

\* the globals as a record g = [config, yt, w]; one assignment of load_ini
StepAssign(g, parser, step) ==
    CASE step = "YoutubeJSON" ->
           [g EXCEPT !.yt = Get(g.config.Settings, "YoutubeJSON", DefaultYoutube)]
      [] step = "WeatherJSON" ->
           [g EXCEPT !.w = Get(g.config.Settings, "WeatherJSON", DefaultWeather)]
      [] OTHER ->
           [g EXCEPT !.config[step] = SectionDict(parser, IniSectionOf(step))]

\* load_ini run from assignment i to its end or to the assignment that
\* raises: [g, ok]
RECURSIVE LoadFrom(_, _, _)
LoadFrom(g, parser, i) ==
    IF i > Len(LoadSteps) THEN [g |-> g, ok |-> TRUE]
    ELSE IF StepRaises(parser, LoadSteps[i]) THEN [g |-> g, ok |-> FALSE]
    ELSE LoadFrom(StepAssign(g, parser, LoadSteps[i]), parser, i + 1)

\* load_ini with a parser that raises on a missing file
load_ini_strict(g, f) ==
    IF f.kind \in {"malformed", "absent"} THEN [g |-> g, ok |-> FALSE]
    ELSE LoadFrom(g, ParserRead(f), 1)

\* load_ini as a whole on file state f
load_ini(g, f) ==
    IF f.kind = "malformed" THEN [g |-> g, ok |-> FALSE]
    ELSE LoadFrom(g, ParserRead(f), 1)

Globals == [config |-> config, yt |-> JSON_FILE_YOUTUBE, w |-> JSON_FILE_WEATHER]

\* module level: config = {}, both paths None; load_ini then fills them at
\* startup.  A process whose load_ini raises never serves a request.
ModuleGlobals ==
    [config |-> [Settings |-> Empty, Apps |-> Empty, Links |-> Empty, Socials |-> Empty],
     yt |-> "None", w |-> "None"]

Startable(f) == load_ini(ModuleGlobals, f).ok
Started(f) == load_ini(ModuleGlobals, f).g

----------------------------------------------------------------------------
(* int(), as file_create applies it to the configured interval             *)

\* the characters of the interval strings the configuration files hold
Chars(str) ==
    CASE str = "3"    -> <<"3">>
      [] str = "soon" -> <<"s", "o", "o", "n">>
      [] str = "-1"   -> <<"-", "1">>
      [] OTHER        -> <<"?">>

Digits == {"0", "1", "2", "3", "4", "5", "6", "7", "8", "9"}

DigitVal(c) ==
    CASE c = "0" -> 0 [] c = "1" -> 1 [] c = "2" -> 2 [] c = "3" -> 3 [] c = "4" -> 4
      [] c = "5" -> 5 [] c = "6" -> 6 [] c = "7" -> 7 [] c = "8" -> 8 [] c = "9" -> 9

RECURSIVE Strip(_)
Strip(s) ==
    IF s = <<>> THEN s
    ELSE IF Head(s) = " " THEN Strip(Tail(s))
    ELSE IF s[Len(s)] = " " THEN Strip(SubSeq(s, 1, Len(s) - 1))
    ELSE s

RECURSIVE DecimalValue(_)
DecimalValue(s) ==
    IF s = <<>> THEN 0
    ELSE 10 * DecimalValue(SubSeq(s, 1, Len(s) - 1)) + DigitVal(s[Len(s)])

\* int(str): blanks stripped, an optional sign, then one or more digits;
\* anything else raises ValueError: [ok, val]
ParseInt(s) ==
    LET t == Strip(s)
        signed == t # <<>> /\ Head(t) \in {"-", "+"}
        body == IF signed THEN Tail(t) ELSE t
    IN  IF body # <<>> /\ \A i \in 1..Len(body) : body[i] \in Digits
          THEN [ok |-> TRUE,
                val |-> IF signed /\ Head(t) = "-" THEN 0 - DecimalValue(body)
                        ELSE DecimalValue(body)]
          ELSE [ok |-> FALSE, val |-> 0]

\* file_create, lines 97-102: the renewal interval in minutes
Interval(settings) ==
    IF "DataRenewalInterval" \notin DOMAIN settings THEN DefaultInterval
    ELSE LET r == ParseInt(Chars(settings["DataRenewalInterval"]))
         IN  IF r.ok THEN r.val ELSE DefaultInterval

----------------------------------------------------------------------------
(* JSON.  A JSON value of the weather API is modelled as a one-key object  *)
(* [key, val] whose value is a string, a sequence of characters; its JSON  *)
(* text is [key, text] with the string literal's characters between the    *)
(* quotes.                                                                 *)

NonAscii == {"U+00E9"}
Quote == "\""
Backslash == "\\"

\* the escape that ensure_ascii=True writes for U+00E9
UEscape == <<Backslash, "u", "0", "0", "e", "9">>

\* json string encoding with ensure_ascii left at its default, True
RECURSIVE EncodeStringAscii(_)
EncodeStringAscii(s) ==
    IF s = <<>> THEN <<>>
    ELSE (CASE Head(s) = Quote -> <<Backslash, Quote>>
            [] Head(s) = Backslash -> <<Backslash, Backslash>>
            [] Head(s) \in NonAscii -> UEscape
            [] OTHER -> <<Head(s)>>) \o EncodeStringAscii(Tail(s))

\* json string encoding with ensure_ascii=False: only the quote and the
\* backslash are escaped, non-ASCII characters are written as they are
RECURSIVE EncodeString(_)
EncodeString(s) ==
    IF s = <<>> THEN <<>>
    ELSE (CASE Head(s) = Quote -> <<Backslash, Quote>>
            [] Head(s) = Backslash -> <<Backslash, Backslash>>
            [] OTHER -> <<Head(s)>>) \o EncodeString(Tail(s))

\* json string decoding: \" \\ and \uXXXX are unescaped
RECURSIVE DecodeString(_)
DecodeString(t) ==
    IF t = <<>> THEN <<>>
    ELSE IF Head(t) = Backslash /\ Len(t) >= 2
      THEN IF t[2] = "u" /\ Len(t) >= 6 /\ SubSeq(t, 1, 6) = UEscape
             THEN <<"U+00E9">> \o DecodeString(SubSeq(t, 7, Len(t)))
             ELSE <<t[2]>> \o DecodeString(SubSeq(t, 3, Len(t)))
      ELSE <<Head(t)>> \o DecodeString(Tail(t))

\* json.dump(data, f, ensure_ascii=False) / json.dumps(data, ensure_ascii=False)
json_dumps(data) == [key |-> data.key, text |-> EncodeString(data.val)]

\* the content of a file that was opened for writing and not yet written
EmptyText == [key |-> "", text |-> <<>>]

\* json.load(f): raises on an empty file
json_load_ok(content) == content # EmptyText
json_load(content) == [key |-> content.key, val |-> DecodeString(content.text)]

\* "error" in data
HasError(data) == data.key = "error"

----------------------------------------------------------------------------
(* The weather API and fetch_weather_from_api                              *)

Payloads == {[key |-> "name", val |-> <<"O", "s", "l", "o">>],
             [key |-> "name", val |-> <<"U+00E9", Quote, Backslash>>]}

OkStatus == 200
FailStatuses == {401, 503}

\* what requests.get can do: answer with a status and a body, or raise
ApiResponses ==
    {[raises |-> FALSE, status |-> OkStatus, body |-> p] : p \in Payloads}
      \cup {[raises |-> FALSE, status |-> c, body |-> [key |-> "message", val |-> <<"denied">>]] :
              c \in FailStatuses}
      \cup {[raises |-> TRUE, status |-> 0, body |-> [key |-> "", val |-> <<"timed out">>]]}

ErrorValue(msg) == [key |-> "error", val |-> msg]

\* fetch_weather_from_api: [data, outbound]; outbound tells whether
\* requests.get was called
fetch_weather_from_api(settings, resp) ==
    IF Get(settings, "WeatherAPIKey", "") = ""
      THEN [data |-> ErrorValue(<<"No API key provided">>), outbound |-> FALSE]
    ELSE IF resp.raises
      THEN [data |-> ErrorValue(resp.body.val), outbound |-> TRUE]
    ELSE IF resp.status = OkStatus
      THEN [data |-> resp.body, outbound |-> TRUE]
    ELSE [data |-> ErrorValue(<<"API request failed with status code ", ToString(resp.status)>>),
          outbound |-> TRUE]

----------------------------------------------------------------------------
(* The file-backed cache                                                   *)

File(content, mtime) == [exists |-> TRUE, content |-> content, mtime |-> mtime]

\* file_create with the comparison turned into "at least as old"
file_create_ge(fs, filename, settings, clock) ==
    clock - fs[filename].mtime >= Interval(settings)

\* file_create(filename): True when the file is older than the interval
file_create(fs, filename, settings, clock) ==
    clock - fs[filename].mtime > Interval(settings)

\* should_update_weather_file
should_update_weather_file(fs, path, settings, clock) ==
    IF ~fs[path].exists THEN TRUE ELSE file_create(fs, path, settings, clock)

\* save_weather_to_file without ensure_ascii=False
save_weather_ascii(fs, path, data, clock) ==
    [fs EXCEPT ![path] = [exists |-> TRUE,
                          content |-> [key |-> data.key, text |-> EncodeStringAscii(data.val)],
                          mtime |-> clock]]

\* save_weather_to_file: open(..., "w") and json.dump(..., ensure_ascii=False)
save_weather_to_file(fs, path, data, clock) ==
    [fs EXCEPT ![path] = File(json_dumps(data), clock)]

\* os.remove
Remove(fs, path) == [fs EXCEPT ![path] = NoFile]

\* update_weather_file: remove the old file if it is there, then save
update_weather_file(fs, path, data, clock) ==
    save_weather_to_file(IF fs[path].exists THEN Remove(fs, path) ELSE fs,
                         path, data, clock)

\* get_weather_data_from_api without the test for "error" before the update
get_weather_always_update(fs, path, settings, clock, resp) ==
    IF ~fs[path].exists \/ clock - fs[path].mtime > Interval(settings)
      THEN LET got == fetch_weather_from_api(settings, resp)
           IN  [data |-> got.data,
                fs |-> [fs EXCEPT ![path] = [exists |-> TRUE, content |-> json_dumps(got.data),
                                             mtime |-> clock]],
                called |-> TRUE, outbound |-> got.outbound, failed |-> FALSE]
      ELSE [data |-> json_load(fs[path].content), fs |-> fs,
            called |-> FALSE, outbound |-> FALSE, failed |-> FALSE]

\* get_weather_data_from_api handled without interruption:
\* [data, fs, called, outbound, failed]
get_weather_data_from_api(fs, path, settings, clock, resp) ==
    IF should_update_weather_file(fs, path, settings, clock)
      THEN LET got == fetch_weather_from_api(settings, resp)
           IN  [data |-> got.data,
                fs |-> IF ~HasError(got.data)
                         THEN update_weather_file(fs, path, got.data, clock)
                         ELSE fs,
                called |-> TRUE, outbound |-> got.outbound, failed |-> FALSE]
      ELSE [data |-> json_load(fs[path].content), fs |-> fs,
            called |-> FALSE, outbound |-> FALSE,
            failed |-> ~json_load_ok(fs[path].content)]

\* the cache states of section 4.2 of the design
CacheState(fs, path, settings, clock) ==
    IF ~fs[path].exists THEN "MISSING"
    ELSE IF file_create(fs, path, settings, clock) THEN "STALE"
    ELSE "FRESH"

----------------------------------------------------------------------------
(* The YouTube snapshot reader                                             *)

\* snapshot files the external collector can leave: a JSON object, here the
\* sequence of its (url, fields) pairs in file order
Snapshot(items) == [exists |-> TRUE, items |-> items]

SnapOne == Snapshot(<<[url |-> "http://x", fields |-> [title |-> "T"]]>>)
SnapTwo == Snapshot(<<[url |-> "http://y", fields |-> [title |-> "U", views |-> "7"]],
                      [url |-> "http://x", fields |-> [title |-> "T"]]>>)
\* a record that already has a field named url
SnapUrl == Snapshot(<<[url |-> "http://x", fields |-> [title |-> "T"]],
                      [url |-> "http://z", fields |-> [title |-> "V", url |-> "http://old"]]>>)

Snapshots == {SnapOne, SnapTwo, SnapUrl}

\* load_youtube_from_file: the pairs of the file, none when it is missing
load_youtube_from_file(ytfs, path) ==
    IF ytfs[path].exists THEN ytfs[path].items ELSE <<>>

\* dict(url=url, **data) raises TypeError when data has a key url
DictRaises(data) == "url" \in DOMAIN data

\* dict(url=url, **data)
DictUrl(url, data) ==
    [k \in DOMAIN data \cup {"url"} |-> IF k = "url" THEN url ELSE data[k]]

\* get_youtube: [status, body]
get_youtube(ytfs, path) ==
    LET items == load_youtube_from_file(ytfs, path)
    IN  IF \E i \in 1..Len(items) : DictRaises(items[i].fields)
          THEN [status |-> 500, body |-> <<"TypeError">>]
          ELSE [status |-> 200,
                body |-> [i \in 1..Len(items) |-> DictUrl(items[i].url, items[i].fields)]]

----------------------------------------------------------------------------
(* The initial state: the process has started, load_ini has run            *)

Workers == {"w1", "w2"}

NoPayload == [key |-> "", val |-> <<>>]
\* a worker's locals: filename and interval of file_create, data of
\* get_weather_data_from_api, parser of load_ini and the index i of its next
\* assignment; called and outbound record what the handler did, changed
\* whether an assignment of load_ini gave a global a new value, removed
\* whether update_weather_file removed the old file
IdleLoc == [path |-> "", interval |-> 0, data |-> NoPayload, parser |-> ParserRead(Absent),
            i |-> 0, called |-> FALSE, outbound |-> FALSE, changed |-> FALSE,
            removed |-> FALSE]

InitCommon ==
    /\ ini \in {f \in IniStates : Startable(f)}
    /\ config = Started(ini).config
    /\ JSON_FILE_YOUTUBE = Started(ini).yt
    /\ JSON_FILE_WEATHER = Started(ini).w
    /\ now = 0
    /\ up = TRUE
    /\ pc = [t \in Workers |-> "idle"]
    /\ loc = [t \in Workers |-> IdleLoc]
    /\ last = [op |-> "start"]

\* the cache file of an earlier run may be there, holding what that run fetched
InitFiles ==
    \E old \in Payloads \cup {NoPayload} :
        /\ lastGood = [p \in WeatherPaths |-> IF p = DefaultWeather THEN old ELSE NoPayload]
        /\ files = [p \in WeatherPaths |->
                      IF p = DefaultWeather /\ old # NoPayload
                        THEN File(json_dumps(old), 0) ELSE NoFile]

Init ==
    /\ InitCommon
    /\ InitFiles
    /\ yt \in [YoutubePaths -> {NoFile, SnapOne}]

Serving == up /\ \A t \in Workers : pc[t] = "idle"

----------------------------------------------------------------------------
(* The environment                                                         *)

\* time passes
Tick ==
    /\ now + TickStep <= MaxTime
    /\ now' = now + TickStep
    /\ last' = [op |-> "tick"]
    /\ UNCHANGED <<ini, config, JSON_FILE_YOUTUBE, JSON_FILE_WEATHER, files, yt, up,
                   pc, loc, lastGood>>

\* the user edits, removes or breaks config.ini
EditIni ==
    /\ \E f \in IniStates \ {ini} : ini' = f
    /\ last' = [op |-> "edit"]
    /\ UNCHANGED <<config, JSON_FILE_YOUTUBE, JSON_FILE_WEATHER, files, yt, now, up,
                   pc, loc, lastGood>>

\* the external collector rewrites or removes a snapshot file
CollectorWrites ==
    /\ \E path \in YoutubePaths, snap \in Snapshots \cup {NoFile} :
          /\ yt[path] # snap
          /\ yt' = [yt EXCEPT ![path] = snap]
    /\ last' = [op |-> "collector"]
    /\ UNCHANGED <<ini, config, JSON_FILE_YOUTUBE, JSON_FILE_WEATHER, files, now, up,
                   pc, loc, lastGood>>

----------------------------------------------------------------------------
(* The handlers, each handled without interruption                         *)

\* POST /reload_settings: load_ini, then 200; 500 when load_ini raises.
\* last.nth is 2 when the request before it was a reload as well, last.before
\* is the configuration the request found.
reload_settings ==
    /\ Serving
    /\ LET r == load_ini(Globals, ini)
       IN  /\ config' = r.g.config
           /\ JSON_FILE_YOUTUBE' = r.g.yt
           /\ JSON_FILE_WEATHER' = r.g.w
           /\ last' = [op |-> "reload", status |-> IF r.ok THEN 200 ELSE 500, file |-> ini,
                       nth |-> IF last.op = "reload" THEN 2 ELSE 1, before |-> config]
    /\ UNCHANGED <<ini, files, yt, now, up, pc, loc, lastGood>>

\* config.get(section, {})
ConfigGet(section) == config[section]

\* GET /api/settings, /api/apps, /api/links, /api/socials
api_section ==
    /\ Serving
    /\ \E section \in {"Settings", "Apps", "Links", "Socials"} :
          last' = [op |-> "api", section |-> section, status |-> 200,
                   body |-> ConfigGet(section)]
    /\ UNCHANGED <<ini, config, JSON_FILE_YOUTUBE, JSON_FILE_WEATHER, files, yt, now, up,
                   pc, loc, lastGood>>

\* GET /api/youtube
api_youtube ==
    /\ Serving
    /\ LET r == get_youtube(yt, JSON_FILE_YOUTUBE)
       IN  last' = [op |-> "youtube", status |-> r.status, body |-> r.body]
    /\ UNCHANGED <<ini, config, JSON_FILE_YOUTUBE, JSON_FILE_WEATHER, files, yt, now, up,
                   pc, loc, lastGood>>

AppNames == {"calc", "Notes", "nonexistent_app"}

\* run_app without the except branch: a spawn that raises is answered like
\* one that does not
run_app_swallow(apps, app_name, raises) ==
    IF app_name \in DOMAIN apps
      THEN [status |-> 200, body |-> [status |-> "ok"],
            spawned |-> IF raises THEN "none" ELSE apps[app_name], waited |-> FALSE]
      ELSE [status |-> 404, body |-> [error |-> "App not found"],
            spawned |-> "none", waited |-> FALSE]

\* run_app(app_name): raises tells whether subprocess.Popen raises;
\* [status, body, spawned, waited]: spawned is the command handed to the
\* shell; waited is FALSE because Popen returns once the child is started and
\* the handler calls neither wait() nor communicate() on it
run_app(apps, app_name, raises) ==
    IF app_name \in DOMAIN apps
      THEN IF raises
             THEN [status |-> 500, body |-> [error |-> "Popen failed"],
                   spawned |-> "none", waited |-> FALSE]
             ELSE [status |-> 200, body |-> [status |-> "ok"],
                   spawned |-> apps[app_name], waited |-> FALSE]
      ELSE [status |-> 404, body |-> [error |-> "App not found"],
            spawned |-> "none", waited |-> FALSE]

\* POST /run/<app_name>
post_run ==
    /\ Serving
    /\ \E app_name \in AppNames, raises \in BOOLEAN :
          LET r == run_app(ConfigGet("Apps"), app_name, raises)
          IN  last' = [op |-> "run", app_name |-> app_name, raises |-> raises,
                       status |-> r.status, body |-> r.body, spawned |-> r.spawned,
                       waited |-> r.waited]
    /\ UNCHANGED <<ini, config, JSON_FILE_YOUTUBE, JSON_FILE_WEATHER, files, yt, now, up,
                   pc, loc, lastGood>>

\* GET /api/weather: get_weather_data_from_api, then json.dumps of the result
api_weather ==
    /\ Serving
    /\ \E resp \in ApiResponses :
          LET r == get_weather_data_from_api(files, JSON_FILE_WEATHER, config.Settings, now, resp)
          IN  /\ files' = r.fs
              /\ lastGood' = IF r.called /\ ~HasError(r.data)
                               THEN [lastGood EXCEPT ![JSON_FILE_WEATHER] = r.data]
                               ELSE lastGood
              /\ last' = [op |-> "weather",
                          status |-> IF r.failed THEN 500 ELSE 200,
                          body |-> json_dumps(r.data),
                          called |-> r.called, outbound |-> r.outbound]
    /\ UNCHANGED <<ini, config, JSON_FILE_YOUTUBE, JSON_FILE_WEATHER, yt, now, up, pc, loc>>

----------------------------------------------------------------------------
(* Specifications                                                          *)

\* the configuration store, the snapshot reader and the launcher
NextConfig ==
    \/ EditIni
    \/ CollectorWrites
    \/ reload_settings
    \/ api_section
    \/ api_youtube
    \/ post_run

Spec == Init /\ [][NextConfig]_vars

\* the weather cache, requests handled one after another
InitWeather ==
    /\ InitCommon
    /\ InitFiles
    /\ yt = [p \in YoutubePaths |-> NoFile]

NextWeather ==
    \/ Tick
    \/ EditIni
    \/ reload_settings
    \/ api_weather

SpecWeather == InitWeather /\ [][NextWeather]_vars

----------------------------------------------------------------------------
(* The handlers step by step, for requests handled by concurrent threads   *)
(* (app.run serves each request on a thread of its own) and for a process  *)
(* that dies inside a handler.  One step is one access to the file system  *)
(* or to a global.                                                         *)

Others == <<ini, yt, now, up>>

Step(t) == [op |-> "step", worker |-> t]

Goto(t, label, l) ==
    /\ pc' = [pc EXCEPT ![t] = label]
    /\ loc' = [loc EXCEPT ![t] = l]
    /\ last' = Step(t)

\* the handler returns (or raises: status 500) and the worker is free again
Finish(t, response) ==
    /\ pc' = [pc EXCEPT ![t] = "idle"]
    /\ loc' = [loc EXCEPT ![t] = IdleLoc]
    /\ last' = response

WeatherResponse(t, status, data, l) ==
    [op |-> "weather", worker |-> t, status |-> status, body |-> json_dumps(data),
     called |-> l.called, outbound |-> l.outbound]

Raised(t, l) == WeatherResponse(t, 500, ErrorValue(<<"Internal Server Error">>), l)

\* line 134: os.path.exists(JSON_FILE_WEATHER)
w_exists(t) ==
    /\ up /\ pc[t] = "idle"
    /\ Goto(t, IF files[JSON_FILE_WEATHER].exists THEN "w_args" ELSE "fetch", IdleLoc)
    /\ UNCHANGED <<Others, config, JSON_FILE_YOUTUBE, JSON_FILE_WEATHER, files, lastGood>>

\* lines 136 and 99: file_create(JSON_FILE_WEATHER) is called and reads the interval
w_args(t) ==
    /\ up /\ pc[t] = "w_args"
    /\ Goto(t, "w_mtime", [loc[t] EXCEPT !.path = JSON_FILE_WEATHER,
                                         !.interval = Interval(config.Settings)])
    /\ UNCHANGED <<Others, config, JSON_FILE_YOUTUBE, JSON_FILE_WEATHER, files, lastGood>>

\* lines 105-113: os.path.getmtime(filename) raises when the file is gone;
\* then the age is compared with the interval
w_mtime(t) ==
    /\ up /\ pc[t] = "w_mtime"
    /\ IF ~files[loc[t].path].exists
         THEN Finish(t, Raised(t, loc[t]))
         ELSE Goto(t, IF now - files[loc[t].path].mtime > loc[t].interval
                        THEN "fetch" ELSE "r_mtime", loc[t])
    /\ UNCHANGED <<Others, config, JSON_FILE_YOUTUBE, JSON_FILE_WEATHER, files, lastGood>>

\* lines 200-203: fetch_weather_from_api; an error value is returned at once
w_fetch(t) ==
    /\ up /\ pc[t] = "fetch"
    /\ \E resp \in ApiResponses :
          LET got == fetch_weather_from_api(config.Settings, resp)
              l == [loc[t] EXCEPT !.data = got.data, !.called = TRUE,
                                  !.outbound = got.outbound]
          IN  IF HasError(got.data)
                THEN Finish(t, WeatherResponse(t, 200, got.data, l))
                ELSE Goto(t, "u_exists", l)
    /\ UNCHANGED <<Others, config, JSON_FILE_YOUTUBE, JSON_FILE_WEATHER, files, lastGood>>

\* line 180: os.path.exists(JSON_FILE_WEATHER)
u_exists(t) ==
    /\ up /\ pc[t] = "u_exists"
    /\ Goto(t, IF files[JSON_FILE_WEATHER].exists THEN "u_remove" ELSE "u_open", loc[t])
    /\ UNCHANGED <<Others, config, JSON_FILE_YOUTUBE, JSON_FILE_WEATHER, files, lastGood>>

\* line 181: os.remove(JSON_FILE_WEATHER) raises when the file is gone
u_remove(t) ==
    /\ up /\ pc[t] = "u_remove"
    /\ IF files[JSON_FILE_WEATHER].exists
         THEN /\ files' = Remove(files, JSON_FILE_WEATHER)
              /\ Goto(t, "u_open", [loc[t] EXCEPT !.removed = TRUE])
         ELSE /\ files' = files
              /\ Finish(t, Raised(t, loc[t]))
    /\ UNCHANGED <<Others, config, JSON_FILE_YOUTUBE, JSON_FILE_WEATHER, lastGood>>

\* line 123: open(JSON_FILE_WEATHER, "w") creates the file, or empties it
u_open(t) ==
    /\ up /\ pc[t] = "u_open"
    /\ files' = [files EXCEPT ![JSON_FILE_WEATHER] = File(EmptyText, now)]
    /\ Goto(t, "u_write", [loc[t] EXCEPT !.path = JSON_FILE_WEATHER])
    /\ UNCHANGED <<Others, config, JSON_FILE_YOUTUBE, JSON_FILE_WEATHER, lastGood>>

\* line 124 and the end of the with block: the text reaches the file that
\* was opened; when that file was removed meanwhile (os.remove unlinks a
\* file that is open), it reaches no file.
\* Then get_weather_data_from_api returns the data.
u_write(t) ==
    /\ up /\ pc[t] = "u_write"
    /\ IF files[loc[t].path].exists
         THEN /\ files' = save_weather_to_file(files, loc[t].path, loc[t].data, now)
              /\ lastGood' = [lastGood EXCEPT ![loc[t].path] = loc[t].data]
         ELSE UNCHANGED <<files, lastGood>>
    /\ Finish(t, WeatherResponse(t, 200, loc[t].data, loc[t]))
    /\ UNCHANGED <<Others, config, JSON_FILE_YOUTUBE, JSON_FILE_WEATHER>>

\* line 206: os.path.getmtime(JSON_FILE_WEATHER), for the log line
r_mtime(t) ==
    /\ up /\ pc[t] = "r_mtime"
    /\ IF files[JSON_FILE_WEATHER].exists
         THEN Goto(t, "r_open", loc[t])
         ELSE Finish(t, Raised(t, loc[t]))
    /\ UNCHANGED <<Others, config, JSON_FILE_YOUTUBE, JSON_FILE_WEATHER, files, lastGood>>

\* lines 211-212: open(JSON_FILE_WEATHER) and json.load, which raise when
\* the file is gone or empty
r_open(t) ==
    /\ up /\ pc[t] = "r_open"
    /\ LET f == files[JSON_FILE_WEATHER]
       IN  IF f.exists /\ json_load_ok(f.content)
             THEN Finish(t, WeatherResponse(t, 200, json_load(f.content), loc[t]))
             ELSE Finish(t, Raised(t, loc[t]))
    /\ UNCHANGED <<Others, config, JSON_FILE_YOUTUBE, JSON_FILE_WEATHER, files, lastGood>>

WeatherSteps(t) ==
    \/ w_exists(t) \/ w_args(t) \/ w_mtime(t) \/ w_fetch(t)
    \/ u_exists(t) \/ u_remove(t) \/ u_open(t) \/ u_write(t)
    \/ r_mtime(t) \/ r_open(t)

ReloadResponse(t, status) == [op |-> "reload", worker |-> t, status |-> status]

\* line 39: parser.read(INI_FILE)
l_read(t) ==
    /\ up /\ pc[t] = "idle"
    /\ IF ini.kind = "malformed"
         THEN Finish(t, ReloadResponse(t, 500))
         ELSE Goto(t, "load", [IdleLoc EXCEPT !.parser = ParserRead(ini), !.i = 1])
    /\ UNCHANGED <<Others, config, JSON_FILE_YOUTUBE, JSON_FILE_WEATHER, files, lastGood>>

\* lines 42-53: the next assignment of load_ini; after the last one
\* reload_settings answers 200
l_assign(t) ==
    /\ up /\ pc[t] = "load"
    /\ LET step == LoadSteps[loc[t].i]
           g == StepAssign(Globals, loc[t].parser, step)
       IN  IF StepRaises(loc[t].parser, step)
             THEN /\ UNCHANGED <<config, JSON_FILE_YOUTUBE, JSON_FILE_WEATHER>>
                  /\ Finish(t, ReloadResponse(t, 500))
             ELSE /\ config' = g.config
                  /\ JSON_FILE_YOUTUBE' = g.yt
                  /\ JSON_FILE_WEATHER' = g.w
                  /\ IF loc[t].i = Len(LoadSteps)
                       THEN Finish(t, ReloadResponse(t, 200))
                       ELSE Goto(t, "load", [loc[t] EXCEPT !.i = @ + 1,
                                                           !.changed = @ \/ g # Globals])
    /\ UNCHANGED <<Others, files, lastGood>>

ReloadSteps(t) == l_read(t) \/ l_assign(t)

\* the process dies (it is killed, the machine loses power): every handler
\* stops where it is.  last.at is where the workers were, last.removed the
\* workers that had removed the old cache file.
Crash ==
    /\ up
    /\ up' = FALSE
    /\ pc' = [t \in Workers |-> "idle"]
    /\ loc' = [t \in Workers |-> IdleLoc]
    /\ last' = [op |-> "crash", at |-> pc, path |-> JSON_FILE_WEATHER,
                 removed |-> {t \in Workers : loc[t].removed}]
    /\ UNCHANGED <<ini, config, JSON_FILE_YOUTUBE, JSON_FILE_WEATHER, files, yt, now, lastGood>>

\* the process is started again: load_ini runs before the first request
Start ==
    /\ ~up
    /\ Startable(ini)
    /\ up' = TRUE
    /\ config' = Started(ini).config
    /\ JSON_FILE_YOUTUBE' = Started(ini).yt
    /\ JSON_FILE_WEATHER' = Started(ini).w
    /\ last' = [op |-> "start"]
    /\ UNCHANGED <<ini, files, yt, now, pc, loc, lastGood>>

\* one worker, and the process may die at any step
NextCrash ==
    \/ Tick
    \/ EditIni
    \/ Crash
    \/ Start
    \/ reload_settings
    \/ WeatherSteps("w1")

SpecCrash == InitWeather /\ [][NextCrash]_vars

\* weather requests on two threads
NextRace ==
    \/ Tick
    \/ \E t \in Workers : WeatherSteps(t)

SpecRace == InitWeather /\ [][NextRace]_vars

\* a reload on one thread while the other handles a weather request
NextReload ==
    \/ EditIni
    \/ ReloadSteps("w1")
    \/ WeatherSteps("w2")

SpecReload == InitWeather /\ [][NextReload]_vars

----------------------------------------------------------------------------
(* Claims about requests handled one after another                         *)

EmptyConfig == [Settings |-> Empty, Apps |-> Empty, Links |-> Empty, Socials |-> Empty]

\* what the interval is meant to be for each configured value: the integer
\* it spells, 6 when it spells none or is not configured
ExpectedInterval(settings) ==
    IF "DataRenewalInterval" \notin DOMAIN settings THEN 6
    ELSE CASE settings["DataRenewalInterval"] = "3" -> 3
           [] settings["DataRenewalInterval"] = "-1" -> 0 - 1
           [] OTHER -> 6

\* missing, or strictly older than the interval
MissingOrOlder ==
    \/ ~files[JSON_FILE_WEATHER].exists
    \/ now - files[JSON_FILE_WEATHER].mtime > ExpectedInterval(config.Settings)

\* C1 as stated: a weather request makes an outbound call exactly when the
\* cache file is missing or strictly older than the interval, and when it
\* makes none it answers with the content of the cache file.
C1_AsStated ==
    [][last'.op = "weather" =>
         /\ last'.outbound <=> MissingOrOlder
         /\ ~last'.outbound =>
               /\ files[JSON_FILE_WEATHER].exists
               /\ last'.body = files[JSON_FILE_WEATHER].content]_vars

\* C1 amended: a weather request calls the fetcher exactly when the cache
\* file is missing or strictly older than the interval (6 when the setting is
\* absent or spells no integer); the fetcher makes the outbound call exactly
\* when the API key is not empty; when the fetcher is not called the answer
\* is exactly the content of the cache file and the file is left as it is.
C1_FetchIffStale ==
    [][last'.op = "weather" =>
         /\ last'.called <=> MissingOrOlder
         /\ last'.outbound <=>
               (last'.called /\ Get(config.Settings, "WeatherAPIKey", "") # "")
         /\ ~last'.called =>
               /\ last'.status = 200
               /\ last'.body = files[JSON_FILE_WEATHER].content
               /\ files' = files]_vars

\* a request served from a file whose age is exactly the interval, with a
\* non-ASCII payload
C1_Witness ==
    /\ last.op = "weather"
    /\ ~last.called
    /\ files[JSON_FILE_WEATHER].exists
    /\ now - files[JSON_FILE_WEATHER].mtime = Interval(config.Settings)
    /\ last.body = files[JSON_FILE_WEATHER].content
    /\ \E i \in 1..Len(last.body.text) : last.body.text[i] \in NonAscii

\* C2: a failed fetch (no API key, a status other than 200, a transport
\* exception) leaves every cache file as it was; no file ever holds an error
\* value; and a request served from the file answers with the payload of the
\* last successful fetch.
C2_FailureKeepsFile ==
    /\ [][(last'.op = "weather" /\ last'.called /\ last'.body.key = "error")
            => files' = files]_vars
    /\ [](\A p \in WeatherPaths : files[p].exists => files[p].content.key # "error")
    /\ []((last.op = "weather" /\ ~last.called)
            => /\ lastGood[JSON_FILE_WEATHER] # NoPayload
               /\ json_load(last.body) = lastGood[JSON_FILE_WEATHER])

\* a fetch that failed on a status other than 200 while the file of an
\* earlier fetch was there and stale
C2_Witness ==
    /\ last.op = "weather"
    /\ last.called
    /\ last.outbound
    /\ last.body.key = "error"
    /\ files[JSON_FILE_WEATHER].exists
    /\ json_load(files[JSON_FILE_WEATHER].content) = lastGood[JSON_FILE_WEATHER]

Occurs(c, s) == \E i \in 1..Len(s) : s[i] = c

\* the file holds exactly the JSON text of the payload, non-ASCII characters
\* as they are
HoldsExactly(file, payload) ==
    /\ payload # NoPayload
    /\ file.content.key = payload.key
    /\ DecodeString(file.content.text) = payload.val
    /\ \A c \in NonAscii : Occurs(c, payload.val) => Occurs(c, file.content.text)
    /\ Len(file.content.text) =
          Len(payload.val) + Cardinality({i \in 1..Len(payload.val) :
                                            payload.val[i] \in {Quote, Backslash}})

SucceededStep == last'.op = "weather" /\ last'.called /\ last'.body.key # "error"

\* C8: a cache file is created or modified only by a weather request whose
\* fetch succeeded; a cache file that exists holds exactly the payload of the
\* most recent successful fetch written to it; and, the configuration being
\* the same, the cache goes from MISSING or STALE to FRESH only in such a
\* request.
C8_OnlySuccessWrites ==
    /\ [][files' # files => SucceededStep]_vars
    /\ [](\A p \in WeatherPaths : files[p].exists => HoldsExactly(files[p], lastGood[p]))
    /\ [][(/\ config' = config
           /\ JSON_FILE_WEATHER' = JSON_FILE_WEATHER
           /\ CacheState(files, JSON_FILE_WEATHER, config.Settings, now) \in {"MISSING", "STALE"}
           /\ CacheState(files', JSON_FILE_WEATHER, config.Settings, now') = "FRESH")
            => SucceededStep]_vars

\* a stale file with one payload was replaced by a successful fetch of the
\* payload with the non-ASCII character, the quote and the backslash
C8_Witness ==
    /\ last.op = "weather"
    /\ last.called
    /\ last.body.key # "error"
    /\ now > 0
    /\ files[JSON_FILE_WEATHER].mtime = now
    /\ Occurs("U+00E9", lastGood[JSON_FILE_WEATHER].val)
    /\ HoldsExactly(files[JSON_FILE_WEATHER], lastGood[JSON_FILE_WEATHER])

----------------------------------------------------------------------------

\* C4: POST /run/<app_name> answers 404 with an error field and spawns
\* nothing when app_name is no key of Apps; 500 with the failure message when
\* it is a key and the spawn raises; 200 with {"status": "ok"}, the command
\* handed to the shell and not waited for, when it is a key and the spawn
\* does not raise.
C4_RunOutcomes ==
    last.op = "run" =>
        LET known == last.app_name \in DOMAIN config.Apps
        IN  /\ ~known => /\ last.status = 404
                         /\ "error" \in DOMAIN last.body
                         /\ last.spawned = "none"
            /\ (known /\ last.raises) => /\ last.status = 500
                                         /\ DOMAIN last.body = {"error"}
                                         /\ last.spawned = "none"
            /\ (known /\ ~last.raises) => /\ last.status = 200
                                          /\ last.body = [status |-> "ok"]
                                          /\ last.spawned = config.Apps[last.app_name]
                                          /\ ~last.waited

\* a registered app whose spawn raised
C4_Witness ==
    /\ last.op = "run"
    /\ last.app_name \in DOMAIN config.Apps
    /\ last.raises
    /\ last.status = 500

\* C5: with no configuration file, a load (at startup or on reload) does not
\* fail and leaves the four sections empty and both paths at their defaults,
\* and the four configuration endpoints then answer with an empty object.
C5_AbsentFileLoadsEmpty ==
    /\ [](((last.op = "start" /\ ini = Absent) \/ (last.op = "reload" /\ last.file = Absent))
            => /\ last.op = "reload" => last.status = 200
               /\ config = EmptyConfig
               /\ JSON_FILE_YOUTUBE = "youtube_data.json"
               /\ JSON_FILE_WEATHER = "weather_data.json")
    /\ [][(ini = Absent /\ config = EmptyConfig /\ last'.op = "api")
            => (last'.status = 200 /\ last'.body = Empty)]_vars

\* a reload after the file was removed emptied sections that held entries
\* and put a moved path back to its default
C5_Witness ==
    /\ last.op = "reload"
    /\ last.file = Absent
    /\ last.status = 200
    /\ last.before.Socials # Empty
    /\ "WeatherJSON" \in DOMAIN last.before.Settings
    /\ config = EmptyConfig
    /\ JSON_FILE_WEATHER = DefaultWeather

\* C6: a reload that directly follows a reload of the same file leaves the
\* four sections and both paths as the first one left them.
C6_ReloadIdempotent ==
    [][(last'.op = "reload" /\ last'.nth = 2)
         => /\ config' = config
            /\ JSON_FILE_YOUTUBE' = JSON_FILE_YOUTUBE
            /\ JSON_FILE_WEATHER' = JSON_FILE_WEATHER
            /\ last'.status = last.status]_vars

\* a second reload of a file that moved both paths
C6_Witness ==
    /\ last.op = "reload"
    /\ last.nth = 2
    /\ last.status = 200
    /\ JSON_FILE_WEATHER = AltWeather
    /\ config.Settings # Empty

\* C7 as stated: GET /api/youtube answers, for every snapshot, with one
\* record per (url, fields) pair, equal to fields plus a url field holding the
\* pair's url, also when fields has a key url; with [] when the file is
\* missing.
C7_AsStated ==
    last.op = "youtube" =>
        LET f == yt[JSON_FILE_YOUTUBE]
            items == IF f.exists THEN f.items ELSE <<>>
        IN  /\ last.status = 200
            /\ Len(last.body) = Len(items)
            /\ \A i \in 1..Len(items) :
                  /\ DOMAIN last.body[i] = DOMAIN items[i].fields \cup {"url"}
                  /\ last.body[i]["url"] = items[i].url
                  /\ \A k \in DOMAIN items[i].fields \ {"url"} :
                        last.body[i][k] = items[i].fields[k]

----------------------------------------------------------------------------
(* Claims about a process that dies and about concurrent requests          *)

\* C9 as stated: when the process dies after the old weather file was
\* removed and before the new content is written, the cache file is left
\* missing.
C9_AsStated ==
    (last.op = "crash" /\ "w1" \in last.removed /\ last.at["w1"] \in {"u_open", "u_write"})
        => ~files[last.path].exists

\* the reload on w1 has given some global a new value and has assignments
\* left that will change others
Torn ==
    /\ pc["w1"] = "load"
    /\ loc["w1"].changed
    /\ Globals # LoadFrom(Globals, loc["w1"].parser, loc["w1"].i).g

\* C3 as stated: a weather request that is about to read the cache path and
\* the interval while a reload runs never finds globals of which some come
\* from the new file and others from the old one.
C3_AsStated == pc["w2"] = "w_args" => ~Torn

\* C10 as stated (for the intervals that are not negative): no weather
\* request is about to read the modification time of the cache file, or to
\* open it, after its existence or freshness check passed and the file has
\* been removed.
C10_AsStated ==
    Interval(config.Settings) >= 0 =>
        \A t \in Workers :
            /\ pc[t] = "w_mtime" => files[loc[t].path].exists
            /\ pc[t] \in {"r_mtime", "r_open"} => files[JSON_FILE_WEATHER].exists

====
